---- MODULE Spec2Model ----
(***************************************************************************)
(* Model of the Bitcoin send pipeline (src/src/multiSender.ts, sendBtc)    *)
(* and of the RPC retry wrapper (src/src/solanaUtils.ts, safeRPCRequest).  *)
(*                                                                         *)
(* sendBtc is an async function: it runs synchronously between its awaits  *)
(* (UTXO GET, fee GET, broadcast POST).  Each step of the function is one  *)
(* action; a step of one invocation is taken only while no other           *)
(* invocation is inside a synchronous section (single-threaded event loop).*)
(***************************************************************************)
EXTENDS Integers, Sequences, FiniteSets, TLC

VARIABLES utxoSet, relayLog, btc, rpc, sol,
          envFile, processEnv, wallet, isWalletConfigured, response

srvVars == <<envFile, processEnv, wallet, isWalletConfigured, response>>

vars == <<utxoSet, relayLog, btc, rpc, sol, srvVars>>

----------------------------------------------------------------------------
(* Bounds of the model *)

MaxUtxos == 3

MaxAccounts == 2

UtxoValues == {630, 1176, 2000}

FeeRates == {1, 2, 5}

AmountInputs == {"abc", "0.000005", "0.00001", "0.000025", "0.0008", "0.000999"}

(* The UTXO lists of the two worked scenarios *)
ScenarioUtxos == {<<100000>>, <<50000, 60000>>}

Sends == {"s1", "s2"}

Calls == {"c1", "c2"}

----------------------------------------------------------------------------
(* Helpers *)

RECURSIVE SumSeq(_)
SumSeq(q) == IF q = <<>> THEN 0 ELSE q[1] + SumSeq(Tail(q))

SeqsUpTo(S, n) == UNION {[1..k -> S] : k \in 0..n}

IsPrefix(p, q) == Len(p) <= Len(q) /\ SubSeq(q, 1, Len(p)) = p

NoResponse == "NoResponse"

NoValue == [pending |-> TRUE]

----------------------------------------------------------------------------
(* Program constants of sendBtc *)

InputVbytes == 68

OutputVbytes == 31

DustLimit == 546

(* Math.floor(parseFloat(amountBTC) * 100_000_000) in IEEE-754 doubles:    *)
(*   0.000005*1e8 = 500.00000000000006 -> 500;                             *)
(*   0.00001*1e8 = 1000.0000000000001 -> 1000;  0.000025*1e8 = 2500.0;     *)
(*   0.0008*1e8 = 80000.0;  0.000999*1e8 = 99900.00000000001 -> 99900;     *)
(*   any other input of the model ("abc") parses to NaN.                   *)
AmountTable ==
    ("0.000005" :> 500) @@ ("0.00001" :> 1000) @@ ("0.000025" :> 2500) @@
    ("0.0008" :> 80000) @@ ("0.000999" :> 99900)

(* BigInt(NaN) throws a RangeError *)
IsNaN(amountBTC) == amountBTC \notin DOMAIN AmountTable

FloorSats(amountBTC) == AmountTable[amountBTC]

(* A message text; the insufficient-funds message also interpolates the    *)
(* needed and the available amount.                                        *)
Text(t) == [text |-> t, butuh |-> 0, punya |-> 0]

(* errMsg = error.response?.data ? error.response.data : error.message *)
ErrMsg(error) ==
    IF error.response # NoResponse /\ error.response # ""
    THEN Text(error.response)
    ELSE error.message

(* new Error(m): an error without a response *)
Err(m) == [message |-> m, response |-> NoResponse]

(* Faults the two GETs and the POST can end in: a transport failure (no    *)
(* response), an HTTP error status with a body, or one with an empty body. *)
HttpErrors ==
    { [message |-> Text("Network Error"), response |-> NoResponse],
      [message |-> Text("Request failed with status code 400"),
       response |-> "error payload"],
      [message |-> Text("Request failed with status code 429"),
       response |-> ""] }

TxIds == {"txid"}

StageOrder == <<"utxoFetch", "feeFetch", "select", "build", "sign", "broadcast">>

----------------------------------------------------------------------------
(* State of one sendBtc invocation *)

IdleSend ==
    [ pc |-> "idle", wifOk |-> FALSE, toOk |-> FALSE, amountBTC |-> "abc",
      utxos |-> <<>>, amountSats |-> 0, feeRate |-> 0,
      psbtInputs |-> <<>>, psbtOutputs |-> <<>>,
      currentSats |-> 0, byteCount |-> 0, fee |-> 0, change |-> 0, next |-> 1,
      signedInputs |-> {}, finalizedInputs |-> {},
      started |-> <<>>, completed |-> <<>>, posts |-> 0,
      result |-> NoValue ]

NewSend(wifOk, toOk, amountBTC) ==
    [IdleSend EXCEPT !.pc = "start", !.wifOk = wifOk, !.toOk = toOk,
                     !.amountBTC = amountBTC]

SyncPcs == {"select", "fee", "build", "sign", "post"}

(* No other invocation is in the middle of a synchronous section. *)
MayRun(s) == \A t \in Sends \ {s} : btc[t].pc \notin SyncPcs

(* The fault rethrown to the caller *)
Caught_Rethrown(b, error) == [b EXCEPT !.pc = "rejected"]

(* catch (error) { ... return { success: false, error: errMsg } } *)
Caught(b, error) ==
    [b EXCEPT !.pc = "done",
              !.result = [success |-> FALSE, error |-> ErrMsg(error)]]

----------------------------------------------------------------------------
(* sendBtc, step by step *)

(* ECPair.fromWIF, p2wpkh address, then the UTXO GET is issued *)
DecodeKey(s) ==
    /\ btc[s].pc = "start"
    /\ MayRun(s)
    /\ btc' = [btc EXCEPT ![s] =
           IF ~btc[s].wifOk
           THEN Caught(btc[s], Err(Text("Invalid checksum")))
           ELSE [btc[s] EXCEPT !.pc = "utxoWait",
                               !.started = Append(@, "utxoFetch")]]
    /\ UNCHANGED <<utxoSet, relayLog, rpc>>

(* The continuation without the check for an empty list *)
UtxoResponse_NoEmptyCheck(s) ==
    /\ btc[s].pc = "utxoWait"
    /\ MayRun(s)
    /\ \/ \E e \in HttpErrors :
             btc' = [btc EXCEPT ![s] = Caught(btc[s], e)]
       \/ LET b == [btc[s] EXCEPT !.utxos = utxoSet,
                                  !.completed = Append(@, "utxoFetch")]
          IN btc' = [btc EXCEPT ![s] =
               IF IsNaN(b.amountBTC)
               THEN Caught(b, Err(Text("The number NaN cannot be converted to a BigInt")))
               ELSE [b EXCEPT !.amountSats = FloorSats(b.amountBTC),
                              !.pc = "feeWait",
                              !.started = Append(@, "feeFetch")]]
    /\ UNCHANGED <<utxoSet, relayLog, rpc>>

(* The UTXO GET settles; the empty check, the amount conversion, and the   *)
(* fee GET is issued.                                                      *)
UtxoResponse(s) ==
    /\ btc[s].pc = "utxoWait"
    /\ MayRun(s)
    /\ \/ \E e \in HttpErrors :
             btc' = [btc EXCEPT ![s] = Caught(btc[s], e)]
       \/ LET b == [btc[s] EXCEPT !.utxos = utxoSet,
                                  !.completed = Append(@, "utxoFetch")]
          IN btc' = [btc EXCEPT ![s] =
               IF Len(b.utxos) = 0
               THEN Caught(b, Err(Text("Saldo 0 atau belum terkonfirmasi (No UTXOs).")))
               ELSE IF IsNaN(b.amountBTC)
               THEN Caught(b, Err(Text("The number NaN cannot be converted to a BigInt")))
               ELSE [b EXCEPT !.amountSats = FloorSats(b.amountBTC),
                              !.pc = "feeWait",
                              !.started = Append(@, "feeFetch")]]
    /\ UNCHANGED <<utxoSet, relayLog, rpc>>

(* The fee GET issued again after a fault, up to five times *)
FeeResponse_Retried(s) ==
    /\ btc[s].pc = "feeWait"
    /\ MayRun(s)
    /\ \/ \E e \in HttpErrors :
             btc' = [btc EXCEPT ![s] =
                 IF Len(btc[s].started) < 5
                 THEN [btc[s] EXCEPT !.started = Append(@, "feeFetch")]
                 ELSE Caught(btc[s], e)]
       \/ \E r \in FeeRates :
             btc' = [btc EXCEPT ![s] =
                 [btc[s] EXCEPT !.feeRate = r,
                                !.completed = Append(@, "feeFetch"),
                                !.started = Append(@, "select"),
                                !.next = 1,
                                !.pc = "select"]]
    /\ UNCHANGED <<utxoSet, relayLog, rpc>>

(* The fee GET settles; feeRate = halfHourFee and the empty Psbt is made *)
FeeResponse(s) ==
    /\ btc[s].pc = "feeWait"
    /\ MayRun(s)
    /\ \/ \E e \in HttpErrors :
             btc' = [btc EXCEPT ![s] = Caught(btc[s], e)]
       \/ \E r \in FeeRates :
             btc' = [btc EXCEPT ![s] =
                 [btc[s] EXCEPT !.feeRate = r,
                                !.completed = Append(@, "feeFetch"),
                                !.started = Append(@, "select"),
                                !.next = 1,
                                !.pc = "select"]]
    /\ UNCHANGED <<utxoSet, relayLog, rpc>>

(* UTXOs another invocation has already taken as inputs *)
ReservedBy(others) ==
    UNION {{btc[t].psbtInputs[k].utxo : k \in 1..Len(btc[t].psbtInputs)} : t \in others}

(* The loop without its break *)
LoopBreaks_Never(currentSats, amountSats) == FALSE

(* if (currentSats >= Number(amountSats)) break; *)
LoopBreaks(currentSats, amountSats) == currentSats >= amountSats

(* The loop skipping the UTXOs reserved by another invocation *)
SelectInput_Reserved(s) ==
    /\ btc[s].pc = "select"
    /\ MayRun(s)
    /\ LET b == btc[s]
           i == b.next
           free == i \notin ReservedBy(Sends \ {s})
           cur == IF free THEN b.currentSats + b.utxos[i] ELSE b.currentSats
       IN btc' = [btc EXCEPT ![s] =
              [b EXCEPT !.psbtInputs =
                            IF free THEN Append(@, [utxo |-> i, value |-> b.utxos[i]])
                            ELSE @,
                        !.currentSats = cur,
                        !.byteCount = IF free THEN @ + InputVbytes ELSE @,
                        !.next = i + 1,
                        !.pc = IF LoopBreaks(cur, b.amountSats) \/ i = Len(b.utxos)
                               THEN "fee" ELSE "select"]]
    /\ UNCHANGED <<utxoSet, relayLog, rpc>>

(* One iteration of for (const utxo of utxos) *)
SelectInput(s) ==
    /\ btc[s].pc = "select"
    /\ MayRun(s)
    /\ LET b == btc[s]
           i == b.next
           cur == b.currentSats + b.utxos[i]
       IN btc' = [btc EXCEPT ![s] =
              [b EXCEPT !.psbtInputs = Append(@, [utxo |-> i, value |-> b.utxos[i]]),
                        !.currentSats = cur,
                        !.byteCount = @ + InputVbytes,
                        !.next = i + 1,
                        !.pc = IF LoopBreaks(cur, b.amountSats) \/ i = Len(b.utxos)
                               THEN "fee" ELSE "select"]]
    /\ UNCHANGED <<utxoSet, relayLog, rpc>>

(* The overhead of one output only *)
FeeOf_OneOutput(byteCount, feeRate) == (byteCount + OutputVbytes) * feeRate

(* byteCount += 31 * 2; const fee = byteCount * feeRate; *)
FeeOf(byteCount, feeRate) == (byteCount + OutputVbytes * 2) * feeRate

(* The check covering the fee only *)
Insufficient_FeeOnly(currentSats, amountSats, fee) == currentSats < fee

(* if (currentSats < Number(amountSats) + fee) throw *)
Insufficient(currentSats, amountSats, fee) == currentSats < amountSats + fee

(* The fee and the sufficiency check after the loop *)
ComputeFee(s) ==
    /\ btc[s].pc = "fee"
    /\ MayRun(s)
    /\ LET b == btc[s]
           f == FeeOf(b.byteCount, b.feeRate)
           c == [b EXCEPT !.byteCount = @ + OutputVbytes * 2, !.fee = f]
       IN btc' = [btc EXCEPT ![s] =
              IF Insufficient(c.currentSats, c.amountSats, f)
              THEN Caught(c, Err([text |-> "Saldo kurang!",
                                  butuh |-> c.amountSats + f,
                                  punya |-> c.currentSats]))
              ELSE [c EXCEPT !.completed = Append(@, "select"),
                             !.started = Append(@, "build"),
                             !.pc = "build"]]
    /\ UNCHANGED <<utxoSet, relayLog, rpc>>

(* The change computed without the fee *)
ChangeOf_NoFee(currentSats, amountSats, fee) == currentSats - amountSats

(* const change = BigInt(currentSats) - amountSats - BigInt(fee); *)
ChangeOf(currentSats, amountSats, fee) == currentSats - amountSats - fee

(* A change output for any positive change, dust included *)
HasChange_Positive(change) == change > 0

(* if (change > 546n) *)
HasChange(change) == change > DustLimit

(* The outputs: destination, then the change unless it is dust *)
OutputsOf(amountSats, change) ==
    <<[address |-> "to", value |-> amountSats]>> \o
    (IF HasChange(change)
     THEN <<[address |-> "sender", value |-> change]>>
     ELSE <<>>)

(* psbt.addOutput(destination); change; psbt.addOutput(change) *)
Build(s) ==
    /\ btc[s].pc = "build"
    /\ MayRun(s)
    /\ LET b == btc[s]
           ch == ChangeOf(b.currentSats, b.amountSats, b.fee)
       IN btc' = [btc EXCEPT ![s] =
              IF ~b.toOk
              THEN Caught(b, Err(Text("to has no matching Script")))
              ELSE [b EXCEPT !.change = ch,
                             !.psbtOutputs = OutputsOf(b.amountSats, ch),
                             !.completed = Append(@, "build"),
                             !.started = Append(@, "sign"),
                             !.pc = "sign"]]
    /\ UNCHANGED <<utxoSet, relayLog, rpc>>

(* psbt.signAllInputs(keyPair); psbt.finalizeAllInputs(); either may throw *)
Sign(s) ==
    /\ btc[s].pc = "sign"
    /\ MayRun(s)
    /\ LET b == btc[s]
           all == {b.psbtInputs[k].utxo : k \in 1..Len(b.psbtInputs)}
       IN \/ btc' = [btc EXCEPT ![s] =
                Caught(b, Err(Text("Can not sign for this input")))]
          \/ btc' = [btc EXCEPT ![s] =
                Caught([b EXCEPT !.signedInputs = all],
                       Err(Text("Can not finalize input")))]
          \/ btc' = [btc EXCEPT ![s] =
                [b EXCEPT !.signedInputs = all,
                          !.finalizedInputs = all,
                          !.completed = Append(@, "sign"),
                          !.pc = "post"]]
    /\ UNCHANGED <<utxoSet, relayLog, rpc>>

(* The POST issued while the inputs are still unsigned *)
Broadcast_BeforeSign(s) ==
    /\ btc[s].pc = "sign"
    /\ MayRun(s)
    /\ btc' = [btc EXCEPT ![s] =
           [btc[s] EXCEPT !.started = Append(@, "broadcast"),
                          !.posts = @ + 1,
                          !.pc = "postWait"]]
    /\ relayLog' = Append(relayLog,
                          [send |-> s,
                           inputs |-> btc[s].psbtInputs,
                           outputs |-> btc[s].psbtOutputs])
    /\ UNCHANGED <<utxoSet, rpc>>

(* psbt.extractTransaction().toHex(); axios.post is issued *)
Broadcast(s) ==
    /\ btc[s].pc = "post"
    /\ MayRun(s)
    /\ btc' = [btc EXCEPT ![s] =
           [btc[s] EXCEPT !.started = Append(@, "broadcast"),
                          !.posts = @ + 1,
                          !.pc = "postWait"]]
    /\ relayLog' = Append(relayLog,
                          [send |-> s,
                           inputs |-> btc[s].psbtInputs,
                           outputs |-> btc[s].psbtOutputs])
    /\ UNCHANGED <<utxoSet, rpc>>

(* A failed POST submitted again *)
BroadcastResponse_Resubmit(s) ==
    /\ btc[s].pc = "postWait"
    /\ MayRun(s)
    /\ \/ \E e \in HttpErrors :
             btc' = [btc EXCEPT ![s] = [btc[s] EXCEPT !.pc = "post"]]
       \/ \E id \in TxIds :
             btc' = [btc EXCEPT ![s] =
                 [btc[s] EXCEPT !.completed = Append(@, "broadcast"),
                                !.pc = "done",
                                !.result = [success |-> TRUE, hash |-> id]]]
    /\ UNCHANGED <<utxoSet, relayLog, rpc>>

(* The POST settles: the transaction id, or the relay's or transport's fault *)
BroadcastResponse(s) ==
    /\ btc[s].pc = "postWait"
    /\ MayRun(s)
    /\ \/ \E e \in HttpErrors :
             btc' = [btc EXCEPT ![s] = Caught(btc[s], e)]
       \/ \E id \in TxIds :
             btc' = [btc EXCEPT ![s] =
                 [btc[s] EXCEPT !.completed = Append(@, "broadcast"),
                                !.pc = "done",
                                !.result = [success |-> TRUE, hash |-> id]]]
    /\ UNCHANGED <<utxoSet, relayLog, rpc>>

SendStep(s) ==
    \/ DecodeKey(s)
    \/ UtxoResponse(s)
    \/ FeeResponse(s)
    \/ SelectInput(s)
    \/ ComputeFee(s)
    \/ Build(s)
    \/ Sign(s)
    \/ Broadcast(s)
    \/ BroadcastResponse(s)

----------------------------------------------------------------------------
(* safeRPCRequest(operation, retries = 5, delay = 2000) *)

Retries == 5

Delay == 2000

(* Errors an operation can reject with.  An error without a message is     *)
(* inspected through JSON.stringify(error).                                *)
RpcErrors ==
    { [message |-> "failed: 429 Too Many Requests", json |-> "{}"],
      [message |-> "Too many requests for a specific RPC call", json |-> "{}"],
      [message |-> "", json |-> "{code:429}"],
      [message |-> "insufficient funds for rent", json |-> "{}"] }

RpcValues == {"value"}

(* String.prototype.includes, case-sensitive, on the texts of the model *)
Includes(text, part) ==
    <<text, part>> \in
      { <<"failed: 429 Too Many Requests", "429">>,
        <<"Too many requests for a specific RPC call", "Too many requests">>,
        <<"{code:429}", "429">> }

(* const msg = error.message || JSON.stringify(error); *)
MsgOf(error) == IF error.message # "" THEN error.message ELSE error.json

(* Every error taken for a rate limit *)
IsRateLimit_Any(error) == TRUE

(* msg.includes("429") || msg.includes("Too many requests") *)
IsRateLimit(error) ==
    Includes(MsgOf(error), "429") \/ Includes(MsgOf(error), "Too many requests")

(* A constant wait *)
WaitTime_Constant(i) == Delay

(* A wait counted from the failures of all calls in flight *)
WaitTime_Shared(i) ==
    Delay * (1 + Len(rpc["c1"].sleeps) + Len(rpc["c2"].sleeps))

(* A doubling wait: 2s, 4s, 8s, ... *)
WaitTime_Exponential(i) == Delay * 2 ^ i

(* const waitTime = delay * (i + 1); *)
WaitTime(i) == Delay * (i + 1)

Exhausted ==
    [message |-> "Gagal request ke RPC setelah 5x percobaan (Limit Penuh).",
     json |-> "{}"]

IdleCall ==
    [ pc |-> "idle", i |-> 0, invoked |-> 0, sleeps |-> <<>>,
      outcomes |-> <<>>, result |-> [kind |-> "none"] ]

NewCall == [IdleCall EXCEPT !.pc = "loop"]

(* One iteration too many *)
LoopContinues_Inclusive(i) == i <= Retries

(* i < retries *)
LoopContinues(i) == i < Retries

(* for (let i = 0; i < retries; i++) { try { return await operation(); *)
(* and, once the loop is over, the final throw.                          *)
Attempt(c) ==
    /\ rpc[c].pc = "loop"
    /\ rpc' = [rpc EXCEPT ![c] =
           IF LoopContinues(rpc[c].i)
           THEN [rpc[c] EXCEPT !.pc = "opWait", !.invoked = @ + 1]
           ELSE [rpc[c] EXCEPT !.pc = "thrown",
                               !.result = [kind |-> "error", error |-> Exhausted]]]
    /\ UNCHANGED <<utxoSet, relayLog, btc>>

(* No sleep after the failure of the last attempt *)
OpSettles_NoLastSleep(c) ==
    /\ rpc[c].pc = "opWait"
    /\ \/ \E v \in RpcValues :
             rpc' = [rpc EXCEPT ![c] =
                 [rpc[c] EXCEPT !.pc = "returned",
                                !.outcomes = Append(@, [ok |-> TRUE, value |-> v]),
                                !.result = [kind |-> "value", value |-> v]]]
       \/ \E e \in RpcErrors :
             LET r == [rpc[c] EXCEPT !.outcomes = Append(@, [ok |-> FALSE, error |-> e])]
             IN rpc' = [rpc EXCEPT ![c] =
                 IF IsRateLimit(e)
                 THEN IF r.i + 1 < Retries
                      THEN [r EXCEPT !.pc = "sleeping",
                                     !.sleeps = Append(@, WaitTime(r.i))]
                      ELSE [r EXCEPT !.pc = "loop", !.i = @ + 1]
                 ELSE [r EXCEPT !.pc = "thrown",
                                !.result = [kind |-> "error", error |-> e]]]
    /\ UNCHANGED <<utxoSet, relayLog, btc>>

(* The awaited operation settles: return its value, or the catch block *)
OpSettles(c) ==
    /\ rpc[c].pc = "opWait"
    /\ \/ \E v \in RpcValues :
             rpc' = [rpc EXCEPT ![c] =
                 [rpc[c] EXCEPT !.pc = "returned",
                                !.outcomes = Append(@, [ok |-> TRUE, value |-> v]),
                                !.result = [kind |-> "value", value |-> v]]]
       \/ \E e \in RpcErrors :
             LET r == [rpc[c] EXCEPT !.outcomes = Append(@, [ok |-> FALSE, error |-> e])]
             IN rpc' = [rpc EXCEPT ![c] =
                 IF IsRateLimit(e)
                 THEN [r EXCEPT !.pc = "sleeping",
                                !.sleeps = Append(@, WaitTime(r.i))]
                 ELSE [r EXCEPT !.pc = "thrown",
                                !.result = [kind |-> "error", error |-> e]]]
    /\ UNCHANGED <<utxoSet, relayLog, btc>>

(* await sleep(waitTime) is over; i++ *)
Wake(c) ==
    /\ rpc[c].pc = "sleeping"
    /\ rpc' = [rpc EXCEPT ![c] = [rpc[c] EXCEPT !.pc = "loop", !.i = @ + 1]]
    /\ UNCHANGED <<utxoSet, relayLog, btc>>

CallStep(c) ==
    \/ Attempt(c)
    \/ OpSettles(c)
    \/ Wake(c)

IdleRpc == [c \in Calls |-> IdleCall]

IdleBtc == [s \in Sends |-> IdleSend]

----------------------------------------------------------------------------
(* closeAllEmptyAccounts(connection, payer) *)

(* tokenAmount of a parsed token account; uiAmount is a number or null,    *)
(* written here as text, amount is a decimal string.                       *)
TokenAmounts ==
    { [uiAmount |-> "0", amount |-> "0"],
      [uiAmount |-> "null", amount |-> "0"],
      [uiAmount |-> "1.5", amount |-> "1500000"],
      [uiAmount |-> "null", amount |-> "1500000"] }

IdleSol ==
    [ pc |-> "idle", standard |-> <<>>, token2022 |-> <<>>,
      allAccounts |-> <<>>, idx |-> 1, closedCount |-> 0, results |-> <<>>,
      closeAccountCalls |-> {}, outcome |-> "none" ]

(* The accounts the two scans will return, and the first scan under way *)
NewSol(standard, token2022) ==
    [IdleSol EXCEPT !.pc = "scanStandard", !.standard = standard,
                    !.token2022 = token2022]

WithProgram(q, programId) ==
    [k \in 1..Len(q) |-> [tokenAmount |-> q[k], programId |-> programId]]

(* A falsy uiAmount (0 or null) taken for an empty account *)
IsEmptyAccount_Falsy(tokenAmount) ==
    tokenAmount.uiAmount \in {"0", "null"} \/ tokenAmount.amount = "0"

(* tokenAmount.uiAmount === 0 || tokenAmount.amount === "0" *)
IsEmptyAccount(tokenAmount) ==
    tokenAmount.uiAmount = "0" \/ tokenAmount.amount = "0"

Settled(c) == rpc[c].pc \in {"returned", "thrown"}

(* Each awaited safeRPCRequest call is a fresh activation, gone once its   *)
(* result is consumed.                                                     *)
(* A step of the safeRPCRequest call the function is awaiting; the wrapped *)
(* operation of a closure invokes closeAccount on the current account;     *)
(* closeAccountCalls keeps the accounts it was invoked on.                 *)
AwaitedCallStep ==
    /\ sol.pc \in {"scanStandard", "scan2022", "closing"}
    /\ \/ /\ Attempt("c1")
          /\ sol' = IF sol.pc = "closing" /\ rpc'["c1"].invoked > rpc["c1"].invoked
                    THEN [sol EXCEPT !.closeAccountCalls = @ \cup {sol.idx}]
                    ELSE sol
       \/ OpSettles("c1") /\ UNCHANGED sol
       \/ Wake("c1") /\ UNCHANGED sol

(* The first scan settles: the second scan starts, or the outer catch *)
ScanStandardSettles ==
    /\ sol.pc = "scanStandard"
    /\ Settled("c1")
    /\ IF rpc["c1"].pc = "returned"
       THEN /\ sol' = [sol EXCEPT !.pc = "scan2022"]
            /\ rpc' = [rpc EXCEPT !["c1"] = NewCall]
       ELSE /\ sol' = [sol EXCEPT !.pc = "thrown", !.outcome = "error"]
            /\ rpc' = [rpc EXCEPT !["c1"] = IdleCall]
    /\ UNCHANGED <<utxoSet, relayLog, btc>>

(* The second scan settles: allAccounts is built and the loop starts *)
Scan2022Settles ==
    /\ sol.pc = "scan2022"
    /\ Settled("c1")
    /\ sol' = IF rpc["c1"].pc = "returned"
              THEN [sol EXCEPT !.pc = "loop", !.idx = 1,
                               !.allAccounts =
                                   WithProgram(sol.standard, "TOKEN_PROGRAM_ID") \o
                                   WithProgram(sol.token2022, "TOKEN_2022_PROGRAM_ID")]
              ELSE [sol EXCEPT !.pc = "thrown", !.outcome = "error"]
    /\ rpc' = [rpc EXCEPT !["c1"] = IdleCall]
    /\ UNCHANGED <<utxoSet, relayLog, btc>>

(* for (const account of allAccounts): the check, and the closure started; *)
(* after the last account the summary is returned.                         *)
LoopStep ==
    /\ sol.pc = "loop"
    /\ IF sol.idx > Len(sol.allAccounts)
       THEN /\ sol' = [sol EXCEPT !.pc = "returned", !.outcome = "success"]
            /\ UNCHANGED rpc
       ELSE IF IsEmptyAccount(sol.allAccounts[sol.idx].tokenAmount)
       THEN /\ sol' = [sol EXCEPT !.pc = "closing"]
            /\ rpc' = [rpc EXCEPT !["c1"] = NewCall]
       ELSE /\ sol' = [sol EXCEPT !.idx = @ + 1]
            /\ UNCHANGED rpc
    /\ UNCHANGED <<utxoSet, relayLog, btc>>

(* The closure settles: counted and recorded as Closed, or as Failed *)
CloseSettles ==
    /\ sol.pc = "closing"
    /\ Settled("c1")
    /\ sol' = IF rpc["c1"].pc = "returned"
              THEN [sol EXCEPT !.pc = "pause",
                               !.closedCount = @ + 1,
                               !.results = Append(@, [account |-> sol.idx,
                                                      status |-> "Closed"])]
              ELSE [sol EXCEPT !.pc = "pause",
                               !.results = Append(@, [account |-> sol.idx,
                                                      status |-> "Failed"])]
    /\ rpc' = [rpc EXCEPT !["c1"] = IdleCall]
    /\ UNCHANGED <<utxoSet, relayLog, btc>>

(* await sleep(1000) or await sleep(2000) is over: the next account *)
PauseOver ==
    /\ sol.pc = "pause"
    /\ sol' = [sol EXCEPT !.pc = "loop", !.idx = @ + 1]
    /\ UNCHANGED <<utxoSet, relayLog, btc, rpc>>

(* The .env file, process.env and the wallet of a server not running *)
ServerOff ==
    /\ envFile = <<>>
    /\ processEnv = <<>>
    /\ wallet = "null"
    /\ isWalletConfigured = FALSE
    /\ response = [route |-> "none"]

----------------------------------------------------------------------------
(* One sendBtc invocation against an arbitrary UTXO set *)

InitBtc ==
    /\ utxoSet \in SeqsUpTo(UtxoValues, MaxUtxos) \cup ScenarioUtxos
    /\ relayLog = <<>>
    /\ \E w \in BOOLEAN, t \in BOOLEAN, a \in AmountInputs :
          btc = [s \in Sends |-> IF s = "s1" THEN NewSend(w, t, a) ELSE IdleSend]
    /\ rpc = IdleRpc
    /\ sol = IdleSol
    /\ ServerOff

NextBtc == (\E s \in Sends : SendStep(s)) /\ UNCHANGED <<sol, srvVars>>

SpecBtc == InitBtc /\ [][NextBtc]_vars

----------------------------------------------------------------------------
(* One safeRPCRequest call around an arbitrary operation *)

InitRetry ==
    /\ utxoSet = <<>>
    /\ relayLog = <<>>
    /\ btc = IdleBtc
    /\ rpc = [c \in Calls |-> IF c = "c1" THEN NewCall ELSE IdleCall]
    /\ sol = IdleSol
    /\ ServerOff

NextRetry == (\E c \in Calls : CallStep(c)) /\ UNCHANGED <<sol, srvVars>>

SpecRetry == InitRetry /\ [][NextRetry]_vars

----------------------------------------------------------------------------
(* Properties of sendBtc, checked under SpecBtc *)

RECURSIVE SumValues(_)
SumValues(q) == IF q = <<>> THEN 0 ELSE q[1].value + SumValues(Tail(q))

InSeq(x, q) == \E k \in 1..Len(q) : q[k] = x

(* The selection stage ran to its verdict *)
SelectionSucceeded(b) == InSeq("select", b.completed)

SelectionFailed(b) ==
    /\ b.pc = "done"
    /\ InSeq("select", b.started)
    /\ ~InSeq("select", b.completed)
    /\ b.result.error.text = "Saldo kurang!"

(* The transaction has its outputs *)
Built(b) == InSeq("build", b.completed)

(* fee(sequence) of the claim: (68*n + 62) * feeRate over all n UTXOs *)
FeeOverAll(b) == (68 * Len(b.utxos) + 62) * b.feeRate

(* C1: whenever the supplied UTXOs sum to at least target + fee(sequence),  *)
(* the selection does not fail with insufficient funds; and whenever the    *)
(* selection succeeds, the accumulated value is >= target + estimated fee.  *)
C1_SelectionSucceedsWhenFunded ==
    \A s \in Sends :
      LET b == btc[s] IN
        /\ (SelectionFailed(b) => SumSeq(b.utxos) < b.amountSats + FeeOverAll(b))
        /\ (SelectionSucceeded(b) => b.currentSats >= b.amountSats + b.fee)

(* C2 as stated: inputs = outputs + estimated fee for every built           *)
(* transaction, with or without a change output.                            *)
C2_ConservationExact ==
    \A s \in Sends :
      LET b == btc[s] IN
        Built(b) =>
          SumValues(b.psbtInputs) = SumValues(b.psbtOutputs) + b.fee

(* C2 amended: with a change output inputs = outputs + estimated fee; with  *)
(* none, inputs = outputs + estimated fee + d, where 0 <= d <= 546 is the   *)
(* suppressed change, paid as additional fee.                               *)
C2_ConservationUpToDust ==
    \A s \in Sends :
      LET b == btc[s]
          d == SumValues(b.psbtInputs) - SumValues(b.psbtOutputs) - b.fee
      IN Built(b) =>
           /\ Len(b.psbtOutputs) \in {1, 2}
           /\ Len(b.psbtOutputs) = 2 => d = 0
           /\ Len(b.psbtOutputs) = 1 => d \in 0..DustLimit

C2_Witness ==
    \E s \in Sends :
      LET b == btc[s] IN
        /\ Built(b)
        /\ Len(b.psbtOutputs) = 1
        /\ SumValues(b.psbtInputs) - SumValues(b.psbtOutputs) - b.fee > 0

(* C3: with change = accumulated - target - fee, a built transaction has    *)
(* exactly the destination output when change <= 546, and otherwise exactly *)
(* two outputs, the second paying change to the funding address.            *)
C3_DustLaw ==
    \A s \in Sends :
      LET b == btc[s]
          change == b.currentSats - b.amountSats - b.fee
      IN Built(b) =>
           IF change <= 546
           THEN b.psbtOutputs = <<[address |-> "to", value |-> b.amountSats]>>
           ELSE b.psbtOutputs = <<[address |-> "to", value |-> b.amountSats],
                                  [address |-> "sender", value |-> change]>>

C3_Witness ==
    \E s \in Sends :
      LET b == btc[s] IN
        /\ Built(b)
        /\ b.currentSats - b.amountSats - b.fee = 546
        /\ Len(b.psbtOutputs) = 1

InsufficientFundsTexts ==
    {"Saldo kurang!", "Saldo 0 atau belum terkonfirmasi (No UTXOs)."}

(* The UTXOs were fetched and sum to less than the target amount *)
Underfunded(b) ==
    /\ InSeq("utxoFetch", b.completed)
    /\ ~IsNaN(b.amountBTC)
    /\ SumSeq(b.utxos) < FloorSats(b.amountBTC)

(* C4: when all supplied UTXOs sum to less than the target, no output is    *)
(* built, nothing is signed, nothing is broadcast, and once the selection   *)
(* (or the empty check) has run the send has failed with insufficient funds.*)
C4_UnderfundedFails ==
    \A s \in Sends :
      LET b == btc[s] IN
        Underfunded(b) =>
          /\ ~InSeq("build", b.started)
          /\ b.psbtOutputs = <<>>
          /\ b.signedInputs = {}
          /\ b.posts = 0
          /\ \A k \in 1..Len(relayLog) : relayLog[k].send # s
          /\ b.pc \notin {"build", "sign", "post", "postWait"}
          /\ (b.pc = "done" /\ (b.utxos = <<>> \/ InSeq("select", b.started))) =>
                /\ b.result.success = FALSE
                /\ b.result.error.text \in InsufficientFundsTexts

C4_Witness ==
    \E s \in Sends :
      LET b == btc[s] IN
        /\ Underfunded(b)
        /\ Len(b.utxos) >= 2
        /\ Len(b.psbtInputs) = Len(b.utxos)
        /\ b.pc = "done"
        /\ b.result.error.text = "Saldo kurang!"

----------------------------------------------------------------------------
(* Properties of safeRPCRequest, checked under SpecRetry *)

(* A rate-limit error, as the claims define it: the text of the error     *)
(* contains "429" or "Too many requests".                                  *)
HasRateLimitMarker(error) ==
    \E part \in {"429", "Too many requests"} : Includes(MsgOf(error), part)

RateLimited(o) == ~o.ok /\ HasRateLimitMarker(o.error)

StrictlyIncreasing(q) == \A j \in 1..(Len(q) - 1) : q[j] < q[j + 1]

(* k rate-limit failures, then a success *)
FailsThenSucceeds(o, k) ==
    /\ Len(o) = k + 1
    /\ \A j \in 1..k : RateLimited(o[j])
    /\ o[k + 1].ok

(* C5: for k < maxAttempts, when the operation fails with a rate-limit      *)
(* error k times and then succeeds, the call returns that value, has        *)
(* invoked the operation k+1 times and has slept k times with strictly      *)
(* increasing delays.                                                       *)
C5_RetriesUntilSuccess ==
    \A c \in Calls : \A k \in 0..(Retries - 1) :
      LET r == rpc[c] IN
        FailsThenSucceeds(r.outcomes, k) =>
          /\ r.pc = "returned"
          /\ r.result = [kind |-> "value", value |-> r.outcomes[k + 1].value]
          /\ r.invoked = k + 1
          /\ Len(r.sleeps) = k
          /\ StrictlyIncreasing(r.sleeps)

C5_Witness ==
    \E c \in Calls :
      /\ FailsThenSucceeds(rpc[c].outcomes, Retries - 1)
      /\ rpc[c].pc = "returned"

(* C6: an error that is not a rate-limit error is the last thing the call   *)
(* sees: it is thrown to the caller as it is, no sleep is taken for it and  *)
(* the operation is not invoked again.                                      *)
C6_OtherErrorPropagates ==
    \A c \in Calls :
      LET r == rpc[c] IN
        \A j \in 1..Len(r.outcomes) :
          (~r.outcomes[j].ok /\ ~HasRateLimitMarker(r.outcomes[j].error)) =>
            /\ j = Len(r.outcomes)
            /\ r.pc = "thrown"
            /\ r.result = [kind |-> "error", error |-> r.outcomes[j].error]
            /\ r.invoked = j
            /\ Len(r.sleeps) = j - 1

C6_Witness ==
    \E c \in Calls :
      LET r == rpc[c] IN
        /\ Len(r.outcomes) >= 2
        /\ ~r.outcomes[Len(r.outcomes)].ok
        /\ ~HasRateLimitMarker(r.outcomes[Len(r.outcomes)].error)
        /\ r.pc = "thrown"

AllRateLimited(r) ==
    /\ Len(r.outcomes) = Retries
    /\ \A j \in 1..Retries : RateLimited(r.outcomes[j])

ThrewExhausted(r) ==
    r.pc = "thrown" /\ r.result = [kind |-> "error", error |-> Exhausted]

C7_Bounded ==
    \A c \in Calls :
      LET r == rpc[c] IN
        /\ r.invoked <= Retries
        /\ Len(r.outcomes) <= Retries
        /\ ThrewExhausted(r) => (r.invoked = Retries /\ AllRateLimited(r))
        /\ (AllRateLimited(r) /\ r.pc \in {"returned", "thrown"}) => ThrewExhausted(r)

(* C7: the operation is never invoked more than maxAttempts times, and when *)
(* every attempt fails with a rate-limit error the call ends, after exactly *)
(* maxAttempts invocations, in the retry-exhausted failure.                 *)
C7_ExhaustsAfterMaxAttempts ==
    /\ []C7_Bounded
    /\ \A c \in Calls : AllRateLimited(rpc[c]) ~> ThrewExhausted(rpc[c])

C7_Witness ==
    \E c \in Calls : ThrewExhausted(rpc[c]) /\ rpc[c].invoked = Retries

(* Timers fire and awaited promises settle *)
FairSpecRetry ==
    SpecRetry /\ \A c \in Calls : WF_vars(CallStep(c) /\ UNCHANGED <<sol, srvVars>>)

----------------------------------------------------------------------------
(* Ordering, broadcast and result of sendBtc, checked under SpecBtc *)

InputsOf(b) == {b.psbtInputs[k].utxo : k \in 1..Len(b.psbtInputs)}

(* C8: the stages start in the order UTXO fetch, fee fetch, selection,      *)
(* output construction, signing, broadcast, each only when the previous one *)
(* has completed, and the broadcast is issued only when every chosen input  *)
(* is signed and finalized.                                                 *)
C8_StagesInOrder ==
    \A s \in Sends :
      LET b == btc[s] IN
        /\ IsPrefix(b.started, StageOrder)
        /\ IsPrefix(b.completed, b.started)
        /\ Len(b.started) <= Len(b.completed) + 1
        /\ InSeq("broadcast", b.started) =>
              /\ b.psbtInputs # <<>>
              /\ b.signedInputs = InputsOf(b)
              /\ b.finalizedInputs = InputsOf(b)
              /\ Built(b)

C8_Witness ==
    \E s \in Sends :
      /\ btc[s].completed = StageOrder
      /\ Len(btc[s].psbtInputs) >= 2

(* C9: one invocation submits its transaction to the relay at most once,    *)
(* whatever the relay answers.                                              *)
C9_BroadcastAtMostOnce ==
    \A s \in Sends :
      /\ btc[s].posts <= 1
      /\ Cardinality({k \in 1..Len(relayLog) : relayLog[k].send = s}) <= 1

C9_Witness ==
    \E s \in Sends :
      /\ btc[s].pc = "done"
      /\ btc[s].posts = 1
      /\ btc[s].result.success = FALSE

(* C10: no fault escapes sendBtc.  A finished invocation has returned a     *)
(* record: success = false with a message when a stage failed, success =    *)
(* true with the transaction id only when the broadcast succeeded.          *)
C10_AlwaysARecord ==
    \A s \in Sends :
      LET b == btc[s] IN
        /\ b.pc # "rejected"
        /\ b.pc = "done" =>
              /\ b.result # NoValue
              /\ b.result.success \in BOOLEAN
              /\ b.result.success =>
                    (b.result.hash \in TxIds /\ InSeq("broadcast", b.completed))
              /\ ~b.result.success =>
                    (b.result.error.text # "" /\ ~InSeq("broadcast", b.completed))
        /\ b.pc # "done" => b.result = NoValue

C10_Witness ==
    \E s \in Sends :
      LET b == btc[s] IN
        /\ b.pc = "done"
        /\ ~b.result.success
        /\ InSeq("sign", b.started)
        /\ ~InSeq("sign", b.completed)

----------------------------------------------------------------------------
(* Two sendBtc invocations in flight against the same funding address *)

RaceAmounts == {"0.000005", "0.00001"}

InitRace ==
    /\ utxoSet \in SeqsUpTo(UtxoValues, MaxUtxos)
    /\ relayLog = <<>>
    /\ btc \in [Sends -> {NewSend(TRUE, TRUE, a) : a \in RaceAmounts}]
    /\ rpc = IdleRpc
    /\ sol = IdleSol
    /\ ServerOff

SpecRace == InitRace /\ [][NextBtc]_vars

(* The UTXOs a submitted transaction spends *)
Spends(tx) == {tx.inputs[k].utxo : k \in 1..Len(tx.inputs)}

(* C11: concurrent sends are not coordinated.  Two invocations that fetched *)
(* the same UTXO list and both chose inputs always share an input, and two  *)
(* transactions they submit to the relay spend a common UTXO.               *)
C11_ConcurrentSendsOverlap ==
    /\ \A s \in Sends : \A t \in Sends \ {s} :
         (/\ btc[s].utxos = btc[t].utxos
          /\ btc[s].psbtInputs # <<>>
          /\ btc[t].psbtInputs # <<>>) =>
            InputsOf(btc[s]) \cap InputsOf(btc[t]) # {}
    /\ \A j \in 1..Len(relayLog) : \A k \in 1..Len(relayLog) :
         relayLog[j].send # relayLog[k].send =>
            Spends(relayLog[j]) \cap Spends(relayLog[k]) # {}

(* Both invocations have issued their POST with a common input *)
C11_Witness ==
    /\ Len(relayLog) = 2
    /\ relayLog[1].send # relayLog[2].send
    /\ Spends(relayLog[1]) \cap Spends(relayLog[2]) # {}
    /\ \A s \in Sends : btc[s].pc = "postWait" /\ btc[s].utxos = utxoSet

----------------------------------------------------------------------------
(* The fetches of sendBtc and the retry wrapper, checked under SpecBtc *)

Count(x, q) == Cardinality({k \in 1..Len(q) : q[k] = x})

LastOf(q) == q[Len(q)]

RateLimitText == Text("Request failed with status code 429")

(* The send ended in the rate-limit fault of its UTXO GET or fee GET *)
FailedOnRateLimitedFetch(b) ==
    /\ b.pc = "done"
    /\ ~b.result.success
    /\ b.result.error = RateLimitText
    /\ b.started # <<>>
    /\ LastOf(b.started) \in {"utxoFetch", "feeFetch"}

(* C12 as stated: a rate-limit failure of the UTXO fetch or the fee fetch   *)
(* is retried after a backoff, so it is never what the send fails with.     *)
C12_FetchesAreRetried ==
    \A s \in Sends : ~FailedOnRateLimitedFetch(btc[s])

(* C12 amended: the UTXO fetch and the fee fetch of sendBtc run outside the *)
(* retry wrapper.  Each is issued at most once, no wrapper call is made,    *)
(* and a rate-limit failure of either ends the send at once with that       *)
(* error, no later stage having run.                                        *)
C12_FetchesAreNotRetried ==
    \A s \in Sends :
      LET b == btc[s] IN
        /\ \A st \in {"utxoFetch", "feeFetch"} : Count(st, b.started) <= 1
        /\ \A c \in Calls : rpc[c] = IdleCall
        /\ FailedOnRateLimitedFetch(b) =>
              /\ Len(b.started) = Len(b.completed) + 1
              /\ b.psbtInputs = <<>>
              /\ b.posts = 0

C12_Witness ==
    \E s \in Sends :
      /\ FailedOnRateLimitedFetch(btc[s])
      /\ LastOf(btc[s].started) = "feeFetch"

----------------------------------------------------------------------------
(* The insufficient-funds error, checked under SpecBtc *)

(* The send failed at the check that follows the selection loop *)
FailedAtSelection(b) ==
    /\ b.pc = "done"
    /\ InSeq("select", b.started)
    /\ ~InSeq("select", b.completed)

(* target + fee - accumulated, from the chosen inputs *)
Shortfall(b) ==
    b.amountSats + (68 * Len(b.psbtInputs) + 62) * b.feeRate - SumValues(b.psbtInputs)

(* C13 as stated: the insufficient-funds error carries the shortfall        *)
(* amount target + fee - accumulated.                                       *)
C13_ErrorCarriesShortfall ==
    \A s \in Sends :
      LET b == btc[s] IN
        FailedAtSelection(b) =>
          Shortfall(b) \in {b.result.error.butuh, b.result.error.punya}

(* C13 amended: when the accumulated value is less than target + fee the    *)
(* send fails with the error "Saldo kurang!" that carries the needed amount *)
(* target + fee and the accumulated amount, whose difference is the         *)
(* shortfall; the selection passes only when accumulated >= target + fee.   *)
(* For one UTXO of 100000, target 99900 and fee rate 1 the fee is 130, the  *)
(* needed amount 100030 and the accumulated amount 100000.                  *)
C13_ErrorCarriesNeededAndHeld ==
    \A s \in Sends :
      LET b == btc[s]
          fee == (68 * Len(b.psbtInputs) + 62) * b.feeRate
          held == SumValues(b.psbtInputs)
      IN /\ FailedAtSelection(b) =>
              /\ held < b.amountSats + fee
              /\ b.result = [success |-> FALSE,
                             error |-> [text |-> "Saldo kurang!",
                                        butuh |-> b.amountSats + fee,
                                        punya |-> held]]
              /\ b.result.error.butuh - b.result.error.punya = Shortfall(b)
              /\ b.psbtOutputs = <<>>
         /\ SelectionSucceeded(b) => held >= b.amountSats + fee
         /\ (FailedAtSelection(b) /\ b.utxos = <<100000>>
               /\ b.amountSats = 99900 /\ b.feeRate = 1) =>
              /\ b.fee = 130
              /\ b.result.error.butuh = 100030
              /\ b.result.error.punya = 100000

C13_Witness ==
    \E s \in Sends :
      LET b == btc[s] IN
        /\ FailedAtSelection(b)
        /\ b.utxos = <<100000>>
        /\ b.amountBTC = "0.000999"
        /\ b.feeRate = 1
        /\ Shortfall(b) = 30

----------------------------------------------------------------------------
(* The selection loop and the fee, checked under SpecBtc *)

(* The selection loop has ended *)
LoopEnded(b) == InSeq("select", b.started) /\ b.pc # "select"

PrefixSum(q, n) == SumSeq(SubSeq(q, 1, n))

(* C14: the chosen inputs are a prefix of the supplied UTXO sequence, in    *)
(* its order, each UTXO once; once the loop has ended the prefix is the     *)
(* shortest one whose values reach the target, or the whole sequence when   *)
(* none does.                                                               *)
C14_ShortestPrefix ==
    \A s \in Sends :
      LET b == btc[s]
          n == Len(b.psbtInputs)
      IN /\ n <= Len(b.utxos)
         /\ \A k \in 1..n : b.psbtInputs[k] = [utxo |-> k, value |-> b.utxos[k]]
         /\ LoopEnded(b) =>
              /\ n >= 1
              /\ PrefixSum(b.utxos, n) >= b.amountSats \/ n = Len(b.utxos)
              /\ \A m \in 1..(n - 1) : PrefixSum(b.utxos, m) < b.amountSats

(* The loop stopped before the end of a list of three or more UTXOs *)
C14_Witness ==
    \E s \in Sends :
      LET b == btc[s] IN
        /\ LoopEnded(b)
        /\ Len(b.psbtInputs) = 2
        /\ Len(b.utxos) >= 3

(* The fee has been computed *)
FeeComputed(b) == LoopEnded(b) /\ b.pc # "fee"

(* C15: the estimated fee is (68 * chosen inputs + 62) * feeRate, computed  *)
(* once after the loop, the 62 vbytes added once whether or not a change    *)
(* output is emitted.  For UTXOs [50000, 60000], target 80000 and fee rate  *)
(* 5 both inputs are chosen, the fee is 990 and the change is 29010.        *)
C15_FeeFormula ==
    \A s \in Sends :
      LET b == btc[s]
          n == Len(b.psbtInputs)
      IN /\ ~FeeComputed(b) => (b.fee = 0 /\ b.byteCount = 68 * n)
         /\ FeeComputed(b) =>
              (b.fee = (68 * n + 62) * b.feeRate /\ b.byteCount = 68 * n + 62)
         /\ (Built(b) /\ b.utxos = <<50000, 60000>>
               /\ b.amountSats = 80000 /\ b.feeRate = 5) =>
              /\ n = 2
              /\ b.fee = 990
              /\ b.psbtOutputs = <<[address |-> "to", value |-> 80000],
                                   [address |-> "sender", value |-> 29010]>>

C15_Witness ==
    \E s \in Sends :
      LET b == btc[s] IN
        /\ Built(b)
        /\ b.utxos = <<50000, 60000>>
        /\ b.amountBTC = "0.0008"
        /\ b.feeRate = 5
        /\ b.fee = 990

----------------------------------------------------------------------------
(* The backoff schedule, checked under SpecRetry *)

(* C16: the backoff is linear.  The sleep that follows the n-th failed      *)
(* attempt of a call lasts baseDelay * n: 2000, 4000, 6000, ... ms with the *)
(* defaults; one sleep per rate-limited attempt.                            *)
C16_LinearBackoff ==
    \A c \in Calls :
      LET r == rpc[c] IN
        /\ \A n \in 1..Len(r.sleeps) :
              /\ r.sleeps[n] = 2000 * n
              /\ RateLimited(r.outcomes[n])
        /\ Len(r.sleeps) =
              Cardinality({n \in 1..Len(r.outcomes) : RateLimited(r.outcomes[n])})

C16_Witness ==
    \E c \in Calls : rpc[c].sleeps = <<2000, 4000, 6000>>

----------------------------------------------------------------------------
(* Failing fast, checked under SpecBtc *)

Failed(b) == b.pc = "done" /\ ~b.result.success

C17_NothingAfterFailure ==
    \A s \in Sends :
      LET b == btc[s] IN
        /\ (InSeq("utxoFetch", b.completed) /\ b.utxos = <<>>) =>
              /\ Failed(b)
              /\ b.started = <<"utxoFetch">>
        /\ FailedAtSelection(b) =>
              /\ LastOf(b.started) = "select"
              /\ b.psbtOutputs = <<>>
              /\ b.signedInputs = {}
              /\ b.finalizedInputs = {}
              /\ b.posts = 0
              /\ \A k \in 1..Len(relayLog) : relayLog[k].send # s
        /\ Failed(b) =>
              /\ Len(b.started) <= Len(b.completed) + 1
              /\ b.posts = 0 \/ LastOf(b.started) = "broadcast"

(* C17: sendBtc fails fast.  An empty UTXO list fails the send before the   *)
(* fee rate is fetched; an insufficient-funds outcome is followed by no     *)
(* output, signature or broadcast; and a finished invocation takes no       *)
(* further step.                                                            *)
C17_FailsFast ==
    /\ []C17_NothingAfterFailure
    /\ [][\A s \in Sends : btc[s].pc = "done" => btc'[s] = btc[s]]_vars

C17_Witness ==
    \E s \in Sends :
      LET b == btc[s] IN
        /\ InSeq("utxoFetch", b.completed)
        /\ b.utxos = <<>>
        /\ Failed(b)
        /\ ~IsNaN(b.amountBTC)

----------------------------------------------------------------------------
(* Several safeRPCRequest calls in flight, interleaved at their awaits *)

InitRetries ==
    /\ utxoSet = <<>>
    /\ relayLog = <<>>
    /\ btc = IdleBtc
    /\ rpc = [c \in Calls |-> NewCall]
    /\ sol = IdleSol
    /\ ServerOff

SpecRetries == InitRetries /\ [][NextRetry]_vars

(* The rate-limit failures the call itself has seen *)
OwnFailures(r) ==
    Cardinality({n \in 1..Len(r.outcomes) : RateLimited(r.outcomes[n])})

(* The state of a call follows from its own outcomes alone *)
C18_OwnState ==
    \A c \in Calls :
      LET r == rpc[c] IN
        /\ Len(r.sleeps) = OwnFailures(r)
        /\ \A n \in 1..Len(r.sleeps) : r.sleeps[n] = Delay * n
        /\ r.i = IF r.pc = "sleeping" THEN OwnFailures(r) - 1 ELSE OwnFailures(r)
        /\ r.invoked = IF r.pc = "opWait" THEN Len(r.outcomes) + 1 ELSE Len(r.outcomes)
        /\ ThrewExhausted(r) => OwnFailures(r) = Retries
        /\ (r.pc = "loop" /\ OwnFailures(r) < Retries) => ENABLED Attempt(c)

(* C18: the retry state is per call.  With several calls in flight each     *)
(* call's attempt counter, attempts left and sleeps follow from its own     *)
(* failures only, and a step of one call changes nothing of another.        *)
C18_PerCallState ==
    /\ []C18_OwnState
    /\ [][\A c \in Calls : \A d \in Calls \ {c} :
            rpc'[c] # rpc[c] => rpc'[d] = rpc[d]]_vars

(* Both calls asleep at once, after different numbers of failures *)
C18_Witness ==
    /\ rpc["c1"].pc = "sleeping"
    /\ rpc["c2"].pc = "sleeping"
    /\ Len(rpc["c1"].sleeps) = 4
    /\ Len(rpc["c2"].sleeps) = 1

----------------------------------------------------------------------------
(* One closeAllEmptyAccounts call over arbitrary token accounts *)

InitClose ==
    /\ utxoSet = <<>>
    /\ relayLog = <<>>
    /\ btc = IdleBtc
    /\ rpc = [c \in Calls |-> IF c = "c1" THEN NewCall ELSE IdleCall]
    /\ \E std \in SeqsUpTo(TokenAmounts, MaxAccounts) :
         \E t22 \in SeqsUpTo(TokenAmounts, MaxAccounts - Len(std)) :
           sol = NewSol(std, t22)
    /\ ServerOff

NextClose ==
    /\ \/ AwaitedCallStep
       \/ ScanStandardSettles
       \/ Scan2022Settles
       \/ LoopStep
       \/ CloseSettles
       \/ PauseOver
    /\ UNCHANGED srvVars

SpecClose == InitClose /\ [][NextClose]_vars

(* The reported amount of the account is zero *)
ZeroBalance(account) ==
    account.tokenAmount.uiAmount = "0" \/ account.tokenAmount.amount = "0"

(* C19: closeAccount is invoked only on token accounts whose reported       *)
(* amount is zero; an account with a balance is never passed to it,         *)
(* whatever became of the other closures.                                   *)
C19_OnlyEmptyAccountsClosed ==
    /\ \A k \in sol.closeAccountCalls :
         /\ k \in 1..Len(sol.allAccounts)
         /\ ZeroBalance(sol.allAccounts[k])
    /\ \A k \in 1..Len(sol.results) :
         ZeroBalance(sol.allAccounts[sol.results[k].account])
    /\ sol.pc = "closing" => ZeroBalance(sol.allAccounts[sol.idx])

(* An account with a balance was passed over and the empty account after   *)
(* it is being closed                                                      *)
C19_Witness ==
    \E k \in 1..Len(sol.allAccounts) :
      /\ ~ZeroBalance(sol.allAccounts[k])
      /\ \E j \in sol.closeAccountCalls : j > k

----------------------------------------------------------------------------
(* The HTTP server of main.ts: the .env file, process.env and the wallet *)

EnvKeys ==
    {"PRIVATE_KEY", "ETH_PRIVATE_KEY", "BTC_PRIVATE_KEY", "BTC_ADDRESS",
     "TON_MNEMONIC"}

(* Request bodies: Solana secrets ("k1" decodes to a keypair, "bad" does   *)
(* not, " " is blank, "" is absent) and secrets of the other chains.       *)
SolSecrets == {"k1", "bad", " ", ""}

ImportSecrets == {"k1", " ", "", "0xe1", "wif1", "m24"}

CoinTypes == {"eth", "btc", "ton", "sol", "doge"}

(* A line KEY=VALUE of the .env file *)
Line(key, value) == [key |-> key, value |-> value]

(* The .env files the server may start with *)
InitialFiles ==
    { <<>>, <<Line("PRIVATE_KEY", "k1")>>, <<Line("PRIVATE_KEY", "bad")>> }

(* dotenv.config(): process.env from the lines of the file *)
EnvOf(file) ==
    [k \in EnvKeys |->
       IF \E i \in 1..Len(file) : file[i].key = k
       THEN file[CHOOSE i \in 1..Len(file) :
                   file[i].key = k /\ \A j \in 1..(i - 1) : file[j].key # k].value
       ELSE ""]

(* String.prototype.trim on the secrets of the model *)
Trim(secret) == IF secret = " " THEN "" ELSE secret

(* bs58.decode and Keypair.fromSecretKey succeed *)
DecodesToKeypair(secret) == secret = "k1"

(* The flag raised as soon as a key is present, before it is decoded *)
LoadWallet_FlagFirst(env) ==
    IF env["PRIVATE_KEY"] # ""
    THEN <<IF DecodesToKeypair(Trim(env["PRIVATE_KEY"]))
           THEN Trim(env["PRIVATE_KEY"]) ELSE "null", TRUE>>
    ELSE <<"null", FALSE>>

(* loadWallet(): the wallet and the flag it leaves, as <<wallet, flag>> *)
LoadWallet(env) ==
    IF env["PRIVATE_KEY"] # "" /\ DecodesToKeypair(Trim(env["PRIVATE_KEY"]))
    THEN <<Trim(env["PRIVATE_KEY"]), TRUE>>
    ELSE <<"null", FALSE>>

(* The lines whose text contains "PRIVATE_KEY=": those of the keys that end *)
(* in PRIVATE_KEY.  envContent.includes(keyLabel)                           *)
IncludesKeyLabel(file) ==
    \E i \in 1..Len(file) :
      file[i].key \in {"PRIVATE_KEY", "ETH_PRIVATE_KEY", "BTC_PRIVATE_KEY"}

(* new RegExp(`^${key}=.*$`, "m").test(envContent) *)
HasLine(file, key) == \E i \in 1..Len(file) : file[i].key = key

(* envContent.replace(regex, newLine): the first matching line, if any *)
ReplaceLine(file, key, value) ==
    IF HasLine(file, key)
    THEN LET i == CHOOSE i \in 1..Len(file) :
                    file[i].key = key /\ \A j \in 1..(i - 1) : file[j].key # key
         IN [file EXCEPT ![i] = Line(key, value)]
    ELSE file

(* envContent += `${prefix}${newLine}` *)
AppendLine(file, key, value) == Append(file, Line(key, value))

(* The new content written by /api/use-wallet *)
UseWalletContent(file, secretKey) ==
    IF IncludesKeyLabel(file)
    THEN ReplaceLine(file, "PRIVATE_KEY", secretKey)
    ELSE AppendLine(file, "PRIVATE_KEY", secretKey)

(* The new content written by updateEnvFile *)
UpdatedContent(file, key, value) ==
    IF HasLine(file, key)
    THEN ReplaceLine(file, key, value)
    ELSE AppendLine(file, key, value)

(* updateEnvFile(key, value) on <<file, env>>; a failing fs call is caught *)
(* and leaves both as they are.                                            *)
UpdateEnvFile(st, key, value, fsOk) ==
    IF fsOk
    THEN <<UpdatedContent(st[1], key, value), [st[2] EXCEPT ![key] = value]>>
    ELSE st

(* The last request and its answer: the route, the coin type of an import, *)
(* the status, the secret of the body and the wallet the handler of a      *)
(* protected route was started with ("none": no such handler ran)          *)
Respond(route, status, secret) ==
    [route |-> route, type |-> "", status |-> status, secret |-> secret,
     handlerWallet |-> "none"]

(* app.post("/api/use-wallet") *)
UseWallet(secretKey, fsOk) ==
    IF secretKey = ""
    THEN /\ response' = Respond("use-wallet", 400, secretKey)
         /\ UNCHANGED <<envFile, processEnv, wallet, isWalletConfigured>>
    ELSE IF ~fsOk
    THEN /\ response' = Respond("use-wallet", 500, secretKey)
         /\ UNCHANGED <<envFile, processEnv, wallet, isWalletConfigured>>
    ELSE LET env == [processEnv EXCEPT !["PRIVATE_KEY"] = secretKey] IN
         /\ envFile' = UseWalletContent(envFile, secretKey)
         /\ processEnv' = env
         /\ wallet' = LoadWallet(env)[1]
         /\ isWalletConfigured' = LoadWallet(env)[2]
         /\ response' = Respond("use-wallet", 200, secretKey)

(* The wallets generateEthWallet, generateBtcWallet, generateTonWallet make *)
Generated ==
    [eth |-> "0xe1", btc |-> "wif1", btcAddress |-> "addr1", ton |-> "m24"]

(* app.post("/api/multichain/create") *)
CreateWallet(type, fsOk1, fsOk2) ==
    /\ LET st == <<envFile, processEnv>>
           new == CASE type = "eth" ->
                         UpdateEnvFile(st, "ETH_PRIVATE_KEY", Generated.eth, fsOk1)
                    [] type = "btc" ->
                         UpdateEnvFile(
                           UpdateEnvFile(st, "BTC_PRIVATE_KEY", Generated.btc, fsOk1),
                           "BTC_ADDRESS", Generated.btcAddress, fsOk2)
                    [] type = "ton" ->
                         UpdateEnvFile(st, "TON_MNEMONIC", Generated.ton, fsOk1)
                    [] OTHER -> st
       IN /\ envFile' = new[1]
          /\ processEnv' = new[2]
    /\ response' = Respond("create", IF type \in {"eth", "btc", "ton"} THEN 200 ELSE 400, "")
    /\ UNCHANGED <<wallet, isWalletConfigured>>

(* secret.startsWith("0x") || secret.length === 64 *)
LooksLikeEthKey(secret) == secret = "0xe1"

(* getBtcAddressFromKey(secret) does not throw *)
IsWif(secret) == secret = "wif1"

(* cleanMnemonic.split(" ").length === 24 *)
Has24Words(secret) == secret = "m24"

(* The handler reloads the wallet *)
WalletAfterImport_Reloaded(env) == LoadWallet(env)

(* No branch of the import handler calls loadWallet: the wallet and the   *)
(* flag, as <<wallet, flag>>, stay what they were                          *)
WalletAfterImport(env) == <<wallet, isWalletConfigured>>

(* app.post("/api/multichain/import") *)
ImportWallet(type, secret, fsOk1, fsOk2) ==
    LET st == <<envFile, processEnv>>
        blank == secret = "" \/ Trim(secret) = ""
        accepted == /\ ~blank
                    /\ \/ type = "eth" /\ LooksLikeEthKey(secret)
                       \/ type = "sol"
                       \/ type = "btc" /\ IsWif(secret)
                       \/ type = "ton" /\ Has24Words(secret)
        new == IF ~accepted THEN st
               ELSE CASE type = "eth" ->
                           UpdateEnvFile(st, "ETH_PRIVATE_KEY", secret, fsOk1)
                      [] type = "sol" ->
                           UpdateEnvFile(st, "PRIVATE_KEY", secret, fsOk1)
                      [] type = "btc" ->
                           UpdateEnvFile(
                             UpdateEnvFile(st, "BTC_PRIVATE_KEY", secret, fsOk1),
                             "BTC_ADDRESS", Generated.btcAddress, fsOk2)
                      [] OTHER ->
                           UpdateEnvFile(st, "TON_MNEMONIC", Trim(secret), fsOk1)
    IN /\ envFile' = new[1]
       /\ processEnv' = new[2]
       /\ response' = [Respond("import",
                               IF accepted THEN 200
                               ELSE IF ~blank /\ type = "btc" THEN 500 ELSE 400,
                               secret) EXCEPT !.type = type]
       /\ wallet' = WalletAfterImport(new[2])[1]
       /\ isWalletConfigured' = WalletAfterImport(new[2])[2]

ProtectedRoutes ==
    {"/status", "/balance", "/close-wallet", "/cek-wallet", "/positions"}

(* requireWallet calls next(): !(!isWalletConfigured || !wallet) *)
RequireWallet == ~(~isWalletConfigured \/ wallet = "null")

(* /status answers at once; the other handlers await the chain and may fail *)
HandlerOutcomes(route) == IF route = "/status" THEN {200} ELSE {200, 500}

(* A request to a protected route: requireWallet, then the handler *)
Protected(route, status) ==
    /\ response' =
          IF RequireWallet
          THEN [Respond(route, status, "") EXCEPT !.handlerWallet = wallet]
          ELSE Respond(route, 401, "")
    /\ UNCHANGED <<envFile, processEnv, wallet, isWalletConfigured>>

(* dotenv.config() and loadWallet() at start *)
InitServer ==
    /\ utxoSet = <<>>
    /\ relayLog = <<>>
    /\ btc = IdleBtc
    /\ rpc = IdleRpc
    /\ sol = IdleSol
    /\ envFile \in InitialFiles
    /\ processEnv = EnvOf(envFile)
    /\ wallet = LoadWallet(processEnv)[1]
    /\ isWalletConfigured = LoadWallet(processEnv)[2]
    /\ response = Respond("none", 0, "")

(* Only the btc branches call updateEnvFile a second time *)
SecondWrite(type) == IF type = "btc" THEN BOOLEAN ELSE {TRUE}

NextServer ==
    /\ \/ \E k \in SolSecrets, ok \in BOOLEAN : UseWallet(k, ok)
       \/ \E t \in CoinTypes, ok1 \in BOOLEAN :
            \E ok2 \in SecondWrite(t) : CreateWallet(t, ok1, ok2)
       \/ \E t \in CoinTypes, k \in ImportSecrets, ok1 \in BOOLEAN :
            \E ok2 \in SecondWrite(t) : ImportWallet(t, k, ok1, ok2)
       \/ \E r \in ProtectedRoutes :
            \E status \in HandlerOutcomes(r) : Protected(r, status)
    /\ UNCHANGED <<utxoSet, relayLog, btc, rpc, sol>>

SpecServer == InitServer /\ [][NextServer]_vars

(* C20: a /api/use-wallet request that answers success with secret S leaves *)
(* the .env file containing the line PRIVATE_KEY=S.                         *)
C20_UseWalletWritesKey ==
    (response.route = "use-wallet" /\ response.status = 200) =>
      \E i \in 1..Len(envFile) : envFile[i] = Line("PRIVATE_KEY", response.secret)

(* C21: an import request of type sol that answers success sets            *)
(* process.env.PRIVATE_KEY and the PRIVATE_KEY line of .env to its secret  *)
(* (or, when the write fails, leaves both as they were), and in either     *)
(* case leaves wallet and isWalletConfigured unchanged; they change only   *)
(* in a /api/use-wallet request.                                           *)
C21_ImportSolKeepsWallet ==
    [][ /\ (response'.route = "import" /\ response'.type = "sol") =>
             /\ wallet' = wallet
             /\ isWalletConfigured' = isWalletConfigured
             /\ response'.status = 200 =>
                  \/ /\ processEnv'["PRIVATE_KEY"] = response'.secret
                     /\ \E i \in 1..Len(envFile') :
                          envFile'[i] = Line("PRIVATE_KEY", response'.secret)
                  \/ /\ processEnv' = processEnv
                     /\ envFile' = envFile
        /\ (wallet' # wallet \/ isWalletConfigured' # isWalletConfigured) =>
             response'.route = "use-wallet" ]_vars

(* A key was imported and saved that the server is not using: the wallet   *)
(* in memory is not the one the new PRIVATE_KEY loads                      *)
C21_Witness ==
    /\ response.route = "import"
    /\ response.type = "sol"
    /\ response.status = 200
    /\ processEnv["PRIVATE_KEY"] = response.secret
    /\ \E i \in 1..Len(envFile) : envFile[i] = Line("PRIVATE_KEY", response.secret)
    /\ wallet = "null"
    /\ response.secret = "k1"

C22_FlagMatchesWallet == isWalletConfigured <=> wallet # "null"

(* C22: isWalletConfigured is true exactly when wallet is non-null, and a  *)
(* request to a protected route runs its handler, with the wallet of that  *)
(* state, only when wallet is non-null; otherwise it is answered 401 and   *)
(* no handler runs.                                                        *)
C22_GuardedRoutes ==
    /\ []C22_FlagMatchesWallet
    /\ [][ response'.route \in ProtectedRoutes =>
             IF wallet # "null"
             THEN response'.status # 401 /\ response'.handlerWallet = wallet
             ELSE response'.status = 401 /\ response'.handlerWallet = "none" ]_vars

(* A key that does not decode was submitted, the wallet is gone and the    *)
(* next protected request was turned away                                  *)
C22_Witness ==
    /\ processEnv["PRIVATE_KEY"] = "bad"
    /\ wallet = "null"
    /\ ~isWalletConfigured
    /\ response.route = "/close-wallet"
    /\ response.status = 401

----------------------------------------------------------------------------
(* The sleeps of an exhausted safeRPCRequest, checked under SpecRetry *)

C23_SleptEveryTime ==
    \A c \in Calls :
      ThrewExhausted(rpc[c]) =>
        /\ Len(rpc[c].sleeps) = Retries
        /\ \A n \in 1..Retries : rpc[c].sleeps[n] = Delay * n

(* C23: a call that ends in the retry-exhausted failure has slept exactly  *)
(* maxAttempts times, baseDelay*1 .. baseDelay*maxAttempts; the last sleep *)
(* is followed by that failure and by no further invocation.               *)
C23_LastSleepThenFailure ==
    /\ []C23_SleptEveryTime
    /\ [][ \A c \in Calls :
             /\ (Len(rpc[c].sleeps) = Retries /\ rpc'[c] # rpc[c]) =>
                  /\ rpc'[c].invoked = rpc[c].invoked
                  /\ rpc'[c].sleeps = rpc[c].sleeps
                  /\ \/ rpc[c].pc = "sleeping" /\ rpc'[c].pc = "loop"
                     \/ rpc[c].pc = "loop" /\ ThrewExhausted(rpc'[c])
             /\ (ThrewExhausted(rpc'[c]) /\ ~ThrewExhausted(rpc[c])) =>
                  Len(rpc[c].sleeps) = Retries ]_vars

(* The call failed exhausted after its fifth sleep, of 10 seconds *)
C23_Witness ==
    /\ ThrewExhausted(rpc["c1"])
    /\ Len(rpc["c1"].sleeps) = Retries
    /\ rpc["c1"].sleeps[Retries] = Delay * Retries

====
